---- MODULE Spec2Model ----
(***************************************************************************)
(* A model of the XML-schema parser of src/src/lib.rs (XmlSchemaParser).   *)
(* The input text is a sequence of one-character strings; the cursor       *)
(* `position` is the 0-based index of the next character, as in the code.  *)
(* One action is one iteration of the `while let` loop of parse(), or one  *)
(* direct call of a parser that parse() never reaches.                     *)
(***************************************************************************)
EXTENDS Integers, Sequences, FiniteSets, TLC

VARIABLES input, entry, arg, position, schema, status, error, result, last

vars == <<input, entry, arg, position, schema, status, error, result, last>>

(***************************************************************************)
(* Bounds of the input generator.                                          *)
(***************************************************************************)
\* the longest document body, counted in fragments
MaxFrags == 3

\* the most child tags written inside a complexType
MaxChildren == 2

(***************************************************************************)
(* Option<T>: None is the empty sequence, Some(v) the one-element one.     *)
(***************************************************************************)
None == <<>>

Some(v) == <<v>>

(***************************************************************************)
(* Literals of the code.                                                   *)
(***************************************************************************)
TagSchema == <<"x", "s", ":", "s", "c", "h", "e", "m", "a">>

TagElement == <<"x", "s", ":", "e", "l", "e", "m", "e", "n", "t">>

TagAttribute == <<"x", "s", ":", "a", "t", "t", "r", "i", "b", "u", "t", "e">>

TagSimpleType == <<"x", "s", ":", "s", "i", "m", "p", "l", "e", "T", "y", "p", "e">>

TagComplexType == <<"x", "s", ":", "c", "o", "m", "p", "l", "e", "x", "T", "y", "p", "e">>

TagSimpleContent == <<"x", "s", ":", "s", "i", "m", "p", "l", "e", "C", "o", "n", "t", "e", "n", "t">>

TagComplexContent == <<"x", "s", ":", "c", "o", "m", "p", "l", "e", "x", "C", "o", "n", "t", "e", "n", "t">>

TagMixedContent == <<"x", "s", ":", "m", "i", "x", "e", "d", "C", "o", "n", "t", "e", "n", "t">>

TagSequence == <<"x", "s", ":", "s", "e", "q", "u", "e", "n", "c", "e">>

TagChoice == <<"x", "s", ":", "c", "h", "o", "i", "c", "e">>

TagAll == <<"x", "s", ":", "a", "l", "l">>

KwType == <<"t", "y", "p", "e">>

KwBase == <<"b", "a", "s", "e", "=", "\"", "x", "s">>

KwTrue == <<"t", "r", "u", "e">>

SimpleDatatype == {"Boolean", "Decimal", "Double", "Float", "Integer", "String"}

\* impl Display for SimpleDatatype
Display(m) ==
    CASE m = "Boolean" -> <<"b", "o", "o", "l", "e", "a", "n">>
      [] m = "Decimal" -> <<"d", "e", "c", "i", "m", "a", "l">>
      [] m = "Double" -> <<"d", "o", "u", "b", "l", "e">>
      [] m = "Float" -> <<"f", "l", "o", "a", "t">>
      [] m = "Integer" -> <<"i", "n", "t", "e", "g", "e", "r">>
      [] m = "String" -> <<"s", "t", "r", "i", "n", "g">>

\* the match on the datatype name in parse_simple_type / parse_simple_content:
\* Some(member) for the six names, None for the `_` arm
MatchDatatype(name) ==
    IF \E m \in SimpleDatatype : Display(m) = name
    THEN Some(CHOOSE m \in SimpleDatatype : Display(m) = name)
    ELSE None

\* Datatype::SimpleType(String::new())
EmptySimpleTypeRef == [tag |-> "SimpleType", ref |-> <<>>]

\* enum XmlSchemaNode, as far as the particle parsers build it: an Element, a
\* ComplexType or a SimpleType
XmlSchemaNode ==
    [kind : {"Element"}, name : Seq(STRING),
     datatype : [tag : {"SimpleType"}, ref : Seq(STRING)],
     max_occurs : Nat, min_occurs : Nat]
    \cup [kind : {"ComplexType"}, name : Seq(STRING), base_type : {None},
          attributes : {{}}, content : STRING, mixed_content : {None}]
    \cup [kind : {"SimpleType"}, name : Seq(STRING), datatype : SimpleDatatype]

NoError == [kind |-> "none", detail |-> <<>>]

UnexpectedTag(tag_name) == [kind |-> "UnexpectedTag", detail |-> tag_name]

UnexpectedCharacter(ch) == [kind |-> "UnexpectedCharacter", detail |-> <<ch>>]

UnsupportedDatatype == [kind |-> "UnsupportedDatatype", detail |-> <<>>]

UnexpectedEndOfInput == [kind |-> "UnexpectedEndOfInput", detail |-> <<>>]

(***************************************************************************)
(* Return values of the parsers: Ok(val), Err(err), or a panic (an index   *)
(* past the end of the buffer), each with the cursor it leaves.            *)
(***************************************************************************)
Ok(p, v) == [st |-> "ok", pos |-> p, val |-> Some(v), err |-> NoError]

Err(p, e) == [st |-> "err", pos |-> p, val |-> None, err |-> e]

Panic(p) == [st |-> "panic", pos |-> p, val |-> None, err |-> NoError]

(***************************************************************************)
(* The cursor.                                                             *)
(***************************************************************************)
\* next_char at cursor p: the character (None at the end of the input) and
\* the cursor afterwards, which is p + 1 in both cases
NextChar(p) ==
    [ch |-> IF p < Len(input) THEN Some(input[p + 1]) ELSE None, pos |-> p + 1]

\* &self.input[start..end]: None stands for the panic of an end past the buffer
Slice(start, end) ==
    IF end > Len(input) THEN None ELSE Some(SubSeq(input, start + 1, end))

(***************************************************************************)
(* The lexical scanners.                                                   *)
(***************************************************************************)
\* `while let Some(ch) = next_char() { '>' | ' ' => break, _ => push(ch) }`
ReadName[p \in Nat, acc \in Seq(STRING)] ==
    LET n == NextChar(p) IN
    IF n.ch = None THEN [pos |-> n.pos, text |-> acc]
    ELSE IF n.ch[1] \in {">", " "} THEN [pos |-> n.pos, text |-> acc]
    ELSE ReadName[n.pos, Append(acc, n.ch[1])]

\* `while let Some(ch) = next_char() { <a character of stops> => break, _ => {} }`:
\* the cursor after the loop
SkipUntil[p \in Nat, stops \in SUBSET STRING] ==
    LET n == NextChar(p) IN
    IF n.ch = None THEN n.pos
    ELSE IF n.ch[1] \in stops THEN n.pos
    ELSE SkipUntil[n.pos, stops]

ParseTagName(p) == ReadName[p, <<>>]

\* the inner loop of parse_optional_attr_value: up to the closing quote
ReadQuoted[p \in Nat, acc \in Seq(STRING)] ==
    LET n == NextChar(p) IN
    IF n.ch = None THEN [pos |-> n.pos, text |-> acc]
    ELSE IF n.ch[1] = "\"" THEN [pos |-> n.pos, text |-> acc]
    ELSE ReadQuoted[n.pos, Append(acc, n.ch[1])]

\* ScanAttrValue with a scan that runs over spaces up to the next quote
ScanAttrValueOverSpaces[p \in Nat] ==
    LET n == NextChar(p) IN
    IF n.ch = None THEN [pos |-> n.pos, text |-> <<>>]
    ELSE IF n.ch[1] = ">" THEN [pos |-> n.pos, text |-> <<>>]
    ELSE IF n.ch[1] = "\"" THEN ReadQuoted[n.pos, <<>>]
    ELSE ScanAttrValueOverSpaces[n.pos]

\* the outer loop of parse_optional_attr_value
ScanAttrValue[p \in Nat] ==
    LET n == NextChar(p) IN
    IF n.ch = None THEN [pos |-> n.pos, text |-> <<>>]
    ELSE IF n.ch[1] \in {">", " "} THEN [pos |-> n.pos, text |-> <<>>]
    ELSE IF n.ch[1] = "\"" THEN ReadQuoted[n.pos, <<>>]
    ELSE ScanAttrValue[n.pos]

\* ParseOptionalAttrValue with the scan that runs over spaces
ParseOptionalAttrValueOverSpaces(p, attr_name) ==
    LET r == ScanAttrValueOverSpaces[p] IN
    [pos |-> r.pos, val |-> IF r.text = <<>> THEN None ELSE Some(r.text)]

\* ParseOptionalAttrValue without the is_empty test: Some("") for `""`
ParseOptionalAttrValueKeepingEmpty(p, attr_name) ==
    LET r == ScanAttrValue[p] IN
    [pos |-> r.pos,
     val |-> IF r.pos <= Len(input) /\ input[r.pos] = "\"" /\ r.pos > p + 1
             THEN Some(r.text)
             ELSE IF r.text = <<>> THEN None ELSE Some(r.text)]

\* attr_name is never read by the code
ParseOptionalAttrValue(p, attr_name) ==
    LET r == ScanAttrValue[p] IN
    [pos |-> r.pos, val |-> IF r.text = <<>> THEN None ELSE Some(r.text)]

ReadDatatypeName[p \in Nat, acc \in Seq(STRING)] ==
    LET n == NextChar(p) IN
    IF n.ch = None THEN [pos |-> n.pos, text |-> acc]
    ELSE IF n.ch[1] = ":" THEN ReadDatatypeName[n.pos, acc]
    ELSE IF n.ch[1] \in {">", " "} THEN [pos |-> n.pos, text |-> acc]
    ELSE ReadDatatypeName[n.pos, Append(acc, n.ch[1])]

ParseDatatypeName(p) == ReadDatatypeName[p, <<>>]

(***************************************************************************)
(* The node parsers.  Each takes the cursor at its call and returns        *)
(* Ok / Err / Panic with the cursor it leaves.                             *)
(***************************************************************************)
\* ParseElement with occurrence bounds 0/1 in place of the fixed 1/1
ParseElementOptional(p) ==
    LET name == ReadName[p, <<>>]
        rest == SkipUntil[name.pos, {">", " "}]
    IN  Ok(rest, [kind |-> "Element", name |-> name.text,
                  datatype |-> EmptySimpleTypeRef,
                  max_occurs |-> 1, min_occurs |-> 0])

ParseElement(p) ==
    LET name == ReadName[p, <<>>]
        rest == SkipUntil[name.pos, {">", " "}]
    IN  Ok(rest, [kind |-> "Element", name |-> name.text,
                  datatype |-> EmptySimpleTypeRef,
                  max_occurs |-> 1, min_occurs |-> 1])

ParseAttribute(p) ==
    LET name == ReadName[p, <<>>]
        rest == SkipUntil[name.pos, {">", " "}]
    IN  Ok(rest, [kind |-> "Attribute", name |-> name.text,
                  datatype |-> EmptySimpleTypeRef,
                  default_value |-> None, fixed_value |-> None,
                  use_option |-> "Optional"])

\* the `loop` of parse_simple_type and of parse_simple_content that looks for
\* the keyword `type`; val is the SimpleDatatype found
DetectDatatype[p \in Nat] ==
    LET n == NextChar(p) IN
    IF n.ch = None THEN Err(n.pos, UnexpectedEndOfInput)
    ELSE IF n.ch[1] = ">" THEN Ok(n.pos, "String")
    ELSE IF n.ch[1] = "s" THEN
        LET start == n.pos - 1
            end == start + 4
            word == Slice(start, end)
        IN  IF word = None THEN Panic(n.pos)
            ELSE IF word[1] = KwType THEN
                LET attr == ParseOptionalAttrValue(n.pos, "type")
                    dn == ParseDatatypeName(attr.pos)
                    m == MatchDatatype(dn.text)
                IN  IF m = None THEN Err(dn.pos, UnsupportedDatatype)
                    ELSE Ok(dn.pos, m[1])
            ELSE DetectDatatype[n.pos]
    ELSE DetectDatatype[n.pos]

ParseSimpleType(p) ==
    LET name == ReadName[p, <<>>]
        child == SkipUntil[name.pos, {"<"}]
        d == DetectDatatype[child]
    IN  IF d.st = "ok"
        THEN Ok(d.pos, [kind |-> "SimpleType", name |-> name.text,
                        datatype |-> d.val[1]])
        ELSE d

ParseSimpleContent(p) ==
    LET tag == SkipUntil[p, {">", " "}]
        d == DetectDatatype[tag]
    IN  IF d.st = "ok"
        THEN Ok(SkipUntil[d.pos, {"<"}], [kind |-> "SimpleContent",
                                          datatype |-> d.val[1]])
        ELSE d

\* the second loop of parse_complex_content_extension; val is the base_type
ScanBase[p \in Nat] ==
    LET n == NextChar(p) IN
    IF n.ch = None THEN Ok(n.pos, <<>>)
    ELSE IF n.ch[1] = " " THEN ScanBase[n.pos]
    ELSE IF n.ch[1] = "b" THEN
        LET start == n.pos - 1
            end == start + 8
            word == Slice(start, end)
        IN  IF word = None THEN Panic(n.pos)
            ELSE IF word[1] = KwBase THEN
                LET base_type == ParseDatatypeName(n.pos)
                IN  Ok(base_type.pos, base_type.text)
            ELSE Err(n.pos, UnexpectedCharacter(n.ch[1]))
    ELSE Err(n.pos, UnexpectedCharacter(n.ch[1]))

ParseComplexContentExtension(p) ==
    LET tag == SkipUntil[p, {">", " "}]
        b == ScanBase[tag]
    IN  IF b.st = "ok"
        THEN Ok(b.pos, [kind |-> "ComplexContentExtension",
                        base_type |-> b.val[1], attributes |-> {}])
        ELSE b

\* ContentOf with the markers of xs:sequence and xs:choice exchanged
ContentOfExchanged(tag_name) ==
    CASE tag_name = TagSimpleContent -> "SimpleContent"
      [] tag_name = TagComplexContent -> "ComplexContentExtension"
      [] tag_name = TagSequence -> "Choice"
      [] tag_name = TagChoice -> "Sequence"
      [] tag_name = TagAll -> "All"

\* the content-model marker a child tag of a complexType sets
ContentOf(tag_name) ==
    CASE tag_name = TagSimpleContent -> "SimpleContent"
      [] tag_name = TagComplexContent -> "ComplexContentExtension"
      [] tag_name = TagSequence -> "Sequence"
      [] tag_name = TagChoice -> "Choice"
      [] tag_name = TagAll -> "All"

\* the second loop of parse_complex_type, entered with the marker set so far;
\* val is the marker when the loop ends
ScanContent[p \in Nat, content \in STRING] ==
    LET n == NextChar(p) IN
    IF n.ch = None THEN Ok(n.pos, content)
    ELSE IF n.ch[1] = "<" THEN
        LET tag == ParseTagName(n.pos) IN
        IF tag.text \in {TagSimpleContent, TagComplexContent, TagSequence,
                         TagChoice, TagAll}
        THEN ScanContent[tag.pos, ContentOf(tag.text)]
        ELSE IF tag.text = TagMixedContent
        THEN Ok(SkipUntil[tag.pos, {">"}], "MixedContent")
        ELSE IF tag.text = TagComplexType
        THEN LET mixed_attr == ParseOptionalAttrValue(tag.pos, "mixed") IN
             IF mixed_attr.val = Some(KwTrue)
             THEN Ok(SkipUntil[mixed_attr.pos, {">"}], "MixedContent")
             ELSE Err(mixed_attr.pos, UnexpectedTag(tag.text))
        ELSE Err(tag.pos, UnexpectedTag(tag.text))
    ELSE IF n.ch[1] = " " THEN ScanContent[n.pos, content]
    ELSE IF n.ch[1] = ">" THEN Ok(n.pos, content)
    ELSE Err(n.pos, UnexpectedCharacter(n.ch[1]))

\* ParseComplexType with the marker Element where no child tag was read
ParseComplexTypeAsElement(p) ==
    LET name == ReadName[p, <<>>]
        c == ScanContent[name.pos, "Empty"]
    IN  IF c.st = "ok"
        THEN Ok(c.pos, [kind |-> "ComplexType", name |-> name.text,
                        base_type |-> None, attributes |-> {},
                        content |-> IF c.val[1] = "Empty" THEN "Element"
                                    ELSE c.val[1],
                        mixed_content |-> None])
        ELSE c

ParseComplexType(p) ==
    LET name == ReadName[p, <<>>]
        c == ScanContent[name.pos, "Empty"]
    IN  IF c.st = "ok"
        THEN Ok(c.pos, [kind |-> "ComplexType", name |-> name.text,
                        base_type |-> None, attributes |-> {},
                        content |-> c.val[1], mixed_content |-> None])
        ELSE c

\* the loop of parse_sequence, of parse_choice and of parse_all (the three
\* bodies are the same); val is the list of child nodes
ParseParticles[p \in Nat, nodes \in Seq(XmlSchemaNode)] ==
    LET n == NextChar(p) IN
    IF n.ch = None THEN Ok(n.pos, nodes)
    ELSE IF n.ch[1] = "<" THEN
        LET tag == ParseTagName(n.pos) IN
        IF tag.text \in {TagElement, TagComplexType, TagSimpleType}
        THEN LET r == CASE tag.text = TagElement -> ParseElement(tag.pos)
                        [] tag.text = TagComplexType -> ParseComplexType(tag.pos)
                        [] tag.text = TagSimpleType -> ParseSimpleType(tag.pos)
             IN  IF r.st = "ok"
                 THEN ParseParticles[r.pos, Append(nodes, r.val[1])]
                 ELSE r
        ELSE Err(tag.pos, UnexpectedTag(tag.text))
    ELSE IF n.ch[1] = " " THEN ParseParticles[n.pos, nodes]
    ELSE IF n.ch[1] = ">" THEN Ok(n.pos, nodes)
    ELSE Err(n.pos, UnexpectedCharacter(n.ch[1]))

ParseSequence(p) == ParseParticles[p, <<>>]

ParseChoice(p) == ParseParticles[p, <<>>]

ParseAll(p) == ParseParticles[p, <<>>]

(***************************************************************************)
(* The input texts.                                                        *)
(***************************************************************************)
SchemaOpen == <<"<", "x", "s", ":", "s", "c", "h", "e", "m", "a">>

TnsAttr == <<" ", "t", "a", "r", "g", "e", "t", "N", "a", "m", "e", "s", "p", "a", "c", "e", "=", "\"", "a", "\"">>

EfdAttr == <<" ", "e", "l", "e", "m", "e", "n", "t", "F", "o", "r", "m", "D", "e", "f", "a", "u", "l", "t", "=", "\"", "q", "\"">>

AfdAttr == <<" ", "a", "t", "t", "r", "i", "b", "u", "t", "e", "F", "o", "r", "m", "D", "e", "f", "a", "u", "l", "t", "=", "\"", "u", "\"">>

Gt == <<">">>

RootAttrs == {"targetNamespace", "elementFormDefault", "attributeFormDefault"}

\* `<xs:schema ...>` carrying the root attributes of S, in the order of the
\* three scanner calls of parse()
SchemaTag(S) ==
    SchemaOpen
    \o (IF "targetNamespace" \in S THEN TnsAttr ELSE <<>>)
    \o (IF "elementFormDefault" \in S THEN EfdAttr ELSE <<>>)
    \o (IF "attributeFormDefault" \in S THEN AfdAttr ELSE <<>>)
    \o Gt

NameFoo == <<"F", "o", "o">>

NameB == <<"B">>

Names == {NameFoo, NameB}

\* `<xs:element name="n">`
ElementDecl(n) == <<"<", "x", "s", ":", "e", "l", "e", "m", "e", "n", "t", " ", "n", "a", "m", "e", "=", "\"">> \o n \o <<"\"", ">">>

ElementFull == <<"<", "x", "s", ":", "e", "l", "e", "m", "e", "n", "t", " ", "n", "a", "m", "e", "=", "\"", "F", "o", "o", "\"", " ", "t", "y", "p", "e", "=", "\"", "T", "\"", " ", "m", "i", "n", "O", "c", "c", "u", "r", "s", "=", "\"", "0", "\"", ">">>

AttributeDecl == <<"<", "x", "s", ":", "a", "t", "t", "r", "i", "b", "u", "t", "e", " ", "n", "a", "m", "e", "=", "\"", "A", "\"", ">">>

AttributeFull ==
    <<"<", "x", "s", ":", "a", "t", "t", "r", "i", "b", "u", "t", "e", " ", "n", "a", "m", "e", "=", "\"", "A", "\"", " ", "t", "y", "p", "e", "=", "\"", "T", "\"", " ", "u", "s", "e", "=", "\"", "r", "e", "q", "u", "i", "r", "e", "d", "\"", " ", "d", "e", "f", "a", "u", "l", "t", "=", "\"", "d", "\"", " ", "f", "i", "x", "e", "d", "=", "\"", "f", "\"", ">">>

\* a root attribute with an empty value, and one whose closing quote is missing
SchemaEmptyValue == <<"<", "x", "s", ":", "s", "c", "h", "e", "m", "a", " ", "t", "a", "r", "g", "e", "t", "N", "a", "m", "e", "s", "p", "a", "c", "e", "=", "\"", "\"", ">">>

SchemaUnterminated == <<"<", "x", "s", ":", "s", "c", "h", "e", "m", "a", " ", "t", "a", "r", "g", "e", "t", "N", "a", "m", "e", "s", "p", "a", "c", "e", "=", "\"", "a", " ", "b">>

SimpleTypeOpen == <<"<", "x", "s", ":", "s", "i", "m", "p", "l", "e", "T", "y", "p", "e", " ", "n", "a", "m", "e", "=", "\"", "X", "\"", ">">>

SimpleContentOpen == <<"<", "x", "s", ":", "s", "i", "m", "p", "l", "e", "C", "o", "n", "t", "e", "n", "t", ">">>

\* the names a datatype is given by: the six canonical renderings and one
\* that is none of them
NameDate == <<"d", "a", "t", "e">>

TypeNames == {Display(m) : m \in SimpleDatatype} \cup {NameDate}

\* `<xs:restriction base="xs:n">`
Restriction(n) == <<"<", "x", "s", ":", "r", "e", "s", "t", "r", "i", "c", "t", "i", "o", "n", " ", "b", "a", "s", "e", "=", "\"", "x", "s", ":">> \o n \o <<"\"", ">">>

\* `<xs:simpleType name="X"><xs:restriction base="xs:n">`
SimpleTypeDecl(n) == SimpleTypeOpen \o Restriction(n)

\* `<xs:restriction type="xs:n">`
RestrictionByType(n) == <<"<", "x", "s", ":", "r", "e", "s", "t", "r", "i", "c", "t", "i", "o", "n", " ", "t", "y", "p", "e", "=", "\"", "x", "s", ":">> \o n \o <<"\"", ">">>

\* `<xs:simpleType name="X"><xs:restriction type="xs:n">`
SimpleTypeDeclByType(n) == SimpleTypeOpen \o RestrictionByType(n)

\* `<xs:simpleContent><xs:restriction base="xs:n">`
SimpleContentDecl(n) == SimpleContentOpen \o Restriction(n)

\* `<xs:simpleContent><xs:restriction type="xs:n">`
SimpleContentDeclByType(n) == SimpleContentOpen \o RestrictionByType(n)

\* `<xs:extension base="xs:n">`
ExtensionDecl(n) == <<"<", "x", "s", ":", "e", "x", "t", "e", "n", "s", "i", "o", "n", " ", "b", "a", "s", "e", "=", "\"", "x", "s", ":">> \o n \o <<"\"", ">">>

ComplexOpen == <<"<", "x", "s", ":", "c", "o", "m", "p", "l", "e", "x", "T", "y", "p", "e", " ", "n", "a", "m", "e", "=", "\"", "C", "\"", ">">>

ComplexClose == <<"<", "/", "x", "s", ":", "c", "o", "m", "p", "l", "e", "x", "T", "y", "p", "e", ">">>

SequenceOpen == <<"<", "x", "s", ":", "s", "e", "q", "u", "e", "n", "c", "e", ">">>

SequenceClose == <<"<", "/", "x", "s", ":", "s", "e", "q", "u", "e", "n", "c", "e", ">">>

ComplexMixed == <<"<", "x", "s", ":", "c", "o", "m", "p", "l", "e", "x", "T", "y", "p", "e", " ", "n", "a", "m", "e", "=", "\"", "C", "\"", " ", "m", "i", "x", "e", "d", "=", "\"", "t", "r", "u", "e", "\"", ">">>

NestedMixed == <<"<", "x", "s", ":", "c", "o", "m", "p", "l", "e", "x", "T", "y", "p", "e", " ", "m", "i", "x", "e", "d", "=", "\"", "t", "r", "u", "e", "\"", ">">>

\* `<name>`
ChildTag(name) == <<"<">> \o name \o <<">">>

\* the child tags parse_complex_type gives a marker, and its own tag with
\* mixed="true"
ChildNames ==
    {TagSimpleContent, TagComplexContent, TagSequence, TagChoice, TagAll,
     TagMixedContent}

Children == {ChildTag(name) : name \in ChildNames} \cup {NestedMixed}

\* the sequences of at most n child tags
RECURSIVE ChildSeqs(_)
ChildSeqs(n) ==
    IF n = 0 THEN {<<>>}
    ELSE LET C == ChildSeqs(n - 1) IN
         C \cup {Append(c, t) : c \in C, t \in Children}

RECURSIVE Flatten(_)
Flatten(ts) == IF ts = <<>> THEN <<>> ELSE Head(ts) \o Flatten(Tail(ts))

\* `<xs:complexType name="C">` followed by the child tags ts
ComplexDecl(ts) == ComplexOpen \o Flatten(ts)

Import == <<"<", "x", "s", ":", "i", "m", "p", "o", "r", "t", "/", ">">>

ImportTagName == <<"x", "s", ":", "i", "m", "p", "o", "r", "t", "/">>

Space == <<" ">>

Newline == <<"\n">>

Text == <<"a", "b", "c">>

\* what stands between <xs:sequence> and </xs:sequence>
Particles == {<<>>, Space, ElementDecl(NameFoo)}

\* `<xs:complexType name="C"><xs:sequence>...</xs:sequence></xs:complexType>`
ComplexSequenceDecl(inner) ==
    ComplexOpen \o SequenceOpen \o inner \o SequenceClose \o ComplexClose

Fragments ==
    { ElementDecl(NameFoo), ElementFull, AttributeDecl,
      SimpleTypeDecl(Display("Integer")), ComplexOpen, SequenceOpen,
      NestedMixed, ComplexMixed, Import, Space, Newline, Text }

\* the concatenations of at most n fragments
RECURSIVE Bodies(_)
Bodies(n) ==
    IF n = 0 THEN {<<>>}
    ELSE LET B == Bodies(n - 1) IN B \cup {b \o f : b \in B, f \in Fragments}

\* every text that is the beginning of a text of D
Prefixes(D) == UNION {{SubSeq(d, 1, k) : k \in 0..Len(d)} : d \in D}

SchemaDocs ==
    {SchemaTag(S) \o tail :
        S \in SUBSET RootAttrs, tail \in {<<>>, Import, ElementDecl(NameFoo)}}

SimpleTypeDocs ==
    {SimpleTypeDecl(n) : n \in TypeNames}
    \cup {SimpleTypeDeclByType(n) : n \in TypeNames}

SimpleContentDocs ==
    {SimpleContentDecl(n) : n \in TypeNames}
    \cup {SimpleContentDeclByType(n) : n \in TypeNames}

ExtensionDocs == {ExtensionDecl(n) : n \in TypeNames}

ComplexDocs == {ComplexDecl(ts) : ts \in ChildSeqs(MaxChildren)}

ParseDocs ==
    Bodies(MaxFrags) \cup SchemaDocs \cup Prefixes(SimpleTypeDocs)
    \cup {ElementDecl(n) : n \in Names}
    \cup {ComplexSequenceDecl(inner) : inner \in Particles}
    \cup ComplexDocs
    \cup {AttributeFull, ElementFull \o AttributeFull, SchemaEmptyValue,
          SchemaUnterminated}

\* tags the attribute-value scanner is called inside of
ScannerDocs ==
    {SchemaTag(S) : S \in SUBSET RootAttrs}
    \cup {ElementFull, ComplexMixed, SchemaEmptyValue, SchemaUnterminated}

\* the attr_name arguments the code passes
AttrNames == {"targetNamespace", "elementFormDefault", "type", "mixed"}

ParticleParsers == {"parse_sequence", "parse_choice", "parse_all"}

\* the texts each entry point is called on
InputsOf(e) ==
    CASE e = "parse" -> ParseDocs
      [] e = "parse_simple_content" -> Prefixes(SimpleContentDocs)
      [] e = "parse_complex_content_extension" -> Prefixes(ExtensionDocs)
      [] e = "parse_optional_attr_value" -> ScannerDocs
      [] e \in ParticleParsers -> Bodies(MaxFrags - 1)

Entries ==
    {"parse", "parse_simple_content", "parse_complex_content_extension",
     "parse_optional_attr_value"} \cup ParticleParsers

\* where the cursor stands when the entry point is called: at the start of a
\* fresh parser, and anywhere in the tag for the attribute-value scanner
StartsOf(e, text) ==
    IF e = "parse_optional_attr_value" THEN 0..Len(text) ELSE {0}

ArgsOf(e) == IF e = "parse_optional_attr_value" THEN AttrNames ELSE {""}

(***************************************************************************)
(* The state machine.                                                      *)
(***************************************************************************)
EmptySchema ==
    [target_namespace |-> None, element_form_default |-> None,
     attribute_form_default |-> None, nodes |-> <<>>]

NoCall == [op |-> "none", from |-> 0, to |-> 0]

\* XmlSchemaParser::new(input), and the locals of the entry point called on it
Init ==
    /\ entry \in Entries
    /\ input \in InputsOf(entry)
    /\ arg \in ArgsOf(entry)
    /\ position \in StartsOf(entry, input)
    /\ schema = EmptySchema
    /\ status = "running"
    /\ error = NoError
    /\ result = None
    /\ last = NoCall

Running(e) == entry = e /\ status = "running"

\* the cursor after `<` and the tag name, when the next character is `<`
AtTag(tag_name) ==
    /\ Running("parse")
    /\ NextChar(position).ch = Some("<")
    /\ ParseTagName(NextChar(position).pos).text = tag_name

AfterTagName == ParseTagName(NextChar(position).pos).pos

\* what parse() does with the value ret that the node parser op returns: push
\* the node, or return on the first error (`?`); a panic unwinds
Dispatch(op, r) ==
    \E ret \in {r} :
        /\ position' = ret.pos
        /\ last' = [op |-> op, from |-> AfterTagName, to |-> ret.pos]
        /\ status' = IF ret.st = "ok" THEN "running" ELSE ret.st
        /\ error' = ret.err
        /\ schema' = IF ret.st = "ok"
                     THEN [schema EXCEPT !.nodes = Append(@, ret.val[1])]
                     ELSE schema
        /\ UNCHANGED <<input, entry, arg, result>>

\* next_char() returns None: the loop ends and parse() returns Ok(schema)
ParseEnd ==
    /\ Running("parse")
    /\ NextChar(position).ch = None
    /\ position' = NextChar(position).pos
    /\ status' = "ok"
    /\ result' = Some(schema)
    /\ UNCHANGED <<input, entry, arg, schema, error, last>>

\* ParseSkipChar with a cursor that stays where it is
ParseSkipCharInPlace ==
    /\ Running("parse")
    /\ NextChar(position).ch # None
    /\ NextChar(position).ch # Some("<")
    /\ position' = position
    /\ UNCHANGED <<input, entry, arg, schema, status, error, result, last>>

\* a character that is not `<` is ignored
ParseSkipChar ==
    /\ Running("parse")
    /\ NextChar(position).ch # None
    /\ NextChar(position).ch # Some("<")
    /\ position' = NextChar(position).pos
    /\ UNCHANGED <<input, entry, arg, schema, status, error, result, last>>

ParseSchemaTag ==
    /\ AtTag(TagSchema)
    /\ LET tns == ParseOptionalAttrValue(AfterTagName, "targetNamespace")
           efd == ParseOptionalAttrValue(tns.pos, "elementFormDefault")
           afd == ParseOptionalAttrValue(efd.pos, "attributeFormDefault")
       IN  /\ schema' = [schema EXCEPT !.target_namespace = tns.val,
                                       !.element_form_default = efd.val,
                                       !.attribute_form_default = afd.val]
           /\ position' = afd.pos
           /\ last' = [op |-> "schema", from |-> AfterTagName, to |-> afd.pos]
    /\ UNCHANGED <<input, entry, arg, status, error, result>>

ParseElementTag ==
    /\ AtTag(TagElement)
    /\ Dispatch("parse_element", ParseElement(AfterTagName))

ParseAttributeTag ==
    /\ AtTag(TagAttribute)
    /\ Dispatch("parse_attribute", ParseAttribute(AfterTagName))

ParseSimpleTypeTag ==
    /\ AtTag(TagSimpleType)
    /\ Dispatch("parse_simple_type", ParseSimpleType(AfterTagName))

ParseComplexTypeTag ==
    /\ AtTag(TagComplexType)
    /\ Dispatch("parse_complex_type", ParseComplexType(AfterTagName))

ParseUnexpectedTag ==
    /\ Running("parse")
    /\ NextChar(position).ch = Some("<")
    /\ LET tag == ParseTagName(NextChar(position).pos) IN
       /\ tag.text \notin {TagSchema, TagElement, TagAttribute, TagSimpleType,
                           TagComplexType}
       /\ position' = tag.pos
       /\ status' = "err"
       /\ error' = UnexpectedTag(tag.text)
    /\ UNCHANGED <<input, entry, arg, schema, result, last>>

\* a parser that parse() does not reach, called on a fresh XmlSchemaParser
Call(op, r) ==
    /\ Running(op)
    /\ \E ret \in {r} :
          /\ position' = ret.pos
          /\ status' = ret.st
          /\ error' = ret.err
          /\ result' = ret.val
          /\ last' = [op |-> op, from |-> position, to |-> ret.pos]
    /\ UNCHANGED <<input, entry, arg, schema>>

CallSimpleContent ==
    Call("parse_simple_content", ParseSimpleContent(position))

CallComplexContentExtension ==
    Call("parse_complex_content_extension",
         ParseComplexContentExtension(position))

\* the scanner called with attr_name = arg; it returns an Option, never an error
CallOptionalAttrValue ==
    LET r == ParseOptionalAttrValue(position, arg) IN
    Call("parse_optional_attr_value", Ok(r.pos, r.val))

CallSequence == Call("parse_sequence", ParseSequence(position))

CallChoice == Call("parse_choice", ParseChoice(position))

CallAll == Call("parse_all", ParseAll(position))

Next ==
    \/ ParseEnd
    \/ ParseSkipChar
    \/ ParseSchemaTag
    \/ ParseElementTag
    \/ ParseAttributeTag
    \/ ParseSimpleTypeTag
    \/ ParseComplexTypeTag
    \/ ParseUnexpectedTag
    \/ CallSimpleContent
    \/ CallComplexContentExtension
    \/ CallOptionalAttrValue
    \/ CallSequence
    \/ CallChoice
    \/ CallAll

Spec == Init /\ [][Next]_vars

\* the program runs on until the entry point returns
FairSpec == Spec /\ WF_vars(Next)

(***************************************************************************)
(* Vocabulary of the properties.                                           *)
(***************************************************************************)
\* the entry point has returned (or unwound)
Done == status # "running"

StartsWith(text, prefix) ==
    Len(text) >= Len(prefix) /\ SubSeq(text, 1, Len(prefix)) = prefix

\* the cursor just after the first `>` at or after cursor p
HasGtFrom(p) == \E k \in (p + 1)..Len(input) : input[k] = ">"

AfterFirstGt(p) ==
    CHOOSE k \in (p + 1)..Len(input) :
        input[k] = ">" /\ \A j \in (p + 1)..(k - 1) : input[j] # ">"

\* the value of a root attribute in the texts of SchemaTag
RootValue(a) ==
    CASE a = "targetNamespace" -> <<"a">>
      [] a = "elementFormDefault" -> <<"q">>
      [] a = "attributeFormDefault" -> <<"u">>

Expected(S, a) == IF a \in S THEN Some(RootValue(a)) ELSE None

\* what may stand before a root-level <xs:import/>
BeforeImport ==
    {<<>>, Space, Text, ElementDecl(NameFoo), ElementFull, AttributeDecl,
     SchemaTag({})}

\* what may stand between two occurrences of a declaration
Separators == {<<>>, Space, Newline}

\* top-level declarations that parse() accepts when they stand alone
Declarations ==
    {ElementDecl(NameFoo), ElementFull, AttributeDecl,
     SimpleTypeDecl(Display("Integer"))}

\* the number of characters of the input consumed when the cursor is p
\* (next_char moves the cursor also when it signals the end of the input)
Consumed(p) == IF p > Len(input) THEN Len(input) ELSE p

Min(S) == CHOOSE k \in S : \A j \in S : k <= j

\* the places after cursor p of the characters of cs
Places(p, cs) == {k \in (p + 1)..Len(input) : input[k] \in cs}

\* cursor p stands outside a quoted value
OutsideQuotes(p) == Cardinality({k \in 1..p : input[k] = "\""}) % 2 = 0

\* what a call of the attribute-value scanner at cursor p comes to, read off
\* the text: the scan ends at the first space, `>` or quote; after a quote the
\* value runs to the next quote, or to the end of the input
ScannerOutcome(p) ==
    IF Places(p, {">", " ", "\""}) = {}
    THEN [pos |-> Len(input) + 1, val |-> None]
    ELSE LET k == Min(Places(p, {">", " ", "\""})) IN
         IF input[k] # "\"" THEN [pos |-> k, val |-> None]
         ELSE LET close == IF Places(k, {"\""}) = {} THEN Len(input) + 1
                           ELSE Min(Places(k, {"\""}))
                  text == SubSeq(input, k + 1, close - 1)
              IN  [pos |-> close,
                   val |-> IF text = <<>> THEN None ELSE Some(text)]

ScannerReturned == last.op = "parse_optional_attr_value"

\* cursor p stands in the attribute list of the tag: after the space that
\* ends the tag name, and outside a quoted value
InAttributeList(p) ==
    /\ Places(0, {" "}) # {}
    /\ p >= Min(Places(0, {" "}))
    /\ OutsideQuotes(p)

\* the marker the specification gives for a child tag of a complexType
MarkerOf(child) ==
    CASE child = ChildTag(TagSimpleContent) -> "SimpleContent"
      [] child = ChildTag(TagComplexContent) -> "ComplexContentExtension"
      [] child = ChildTag(TagSequence) -> "Sequence"
      [] child = ChildTag(TagChoice) -> "Choice"
      [] child = ChildTag(TagAll) -> "All"
      [] child = ChildTag(TagMixedContent) -> "MixedContent"
      [] child = NestedMixed -> "MixedContent"

\* the child tags of ts that are among the six the specification lists
RECURSIVE Listed(_)
Listed(ts) ==
    IF ts = <<>> THEN <<>>
    ELSE IF Head(ts) = NestedMixed THEN Listed(Tail(ts))
    ELSE <<Head(ts)>> \o Listed(Tail(ts))

\* a child tag after which the ComplexType parser returns
EndsContent(child) == child \in {ChildTag(TagMixedContent), NestedMixed}

\* the child tags of ts up to the first one that ends the content
UpToEnd(ts) ==
    LET E == {i \in 1..Len(ts) : EndsContent(ts[i])} IN
    IF E = {} THEN ts ELSE SubSeq(ts, 1, Min(E))

LastMarker(ts) == IF ts = <<>> THEN "Empty" ELSE MarkerOf(ts[Len(ts)])

\* the ComplexType parser has returned from the declaration that opens the
\* input, successfully
ComplexReturned ==
    /\ entry = "parse"
    /\ last.op = "parse_complex_type"
    /\ last.from = Len(TagComplexType) + 2
    /\ status \in {"running", "ok"}

(***************************************************************************)
(* C1: for a document that is only an <xs:schema ...> opening tag carrying *)
(* any subset of targetNamespace, elementFormDefault, attributeFormDefault *)
(* in that order, parse() returns a schema whose three root fields hold    *)
(* the quoted value exactly when the attribute is present, and no node.    *)
(***************************************************************************)
C1_RootAttributesCaptured ==
    \A S \in SUBSET RootAttrs :
        (entry = "parse" /\ input = SchemaTag(S) /\ Done) =>
            /\ status = "ok"
            /\ schema.target_namespace = Expected(S, "targetNamespace")
            /\ schema.element_form_default = Expected(S, "elementFormDefault")
            /\ schema.attribute_form_default
                 = Expected(S, "attributeFormDefault")
            /\ schema.nodes = <<>>

(***************************************************************************)
(* C2: parsing <xs:element name="Foo"> yields exactly one Element node     *)
(* whose name is Foo (no `name=` key, no quotes), with min_occurs = 1,     *)
(* max_occurs = 1 and an empty simple-type reference as datatype.          *)
(***************************************************************************)
C2_ElementNamedFoo ==
    \A n \in Names :
        (entry = "parse" /\ input = ElementDecl(n) /\ Done) =>
            /\ status = "ok"
            /\ schema.nodes = << [kind |-> "Element", name |-> n,
                                  datatype |-> EmptySimpleTypeRef,
                                  max_occurs |-> 1, min_occurs |-> 1] >>

(***************************************************************************)
(* C3: for each of the six scalar kinds m, a simpleType or simpleContent   *)
(* declaration that names the datatype by Display(m) prefixed with `xs:`   *)
(* (as the base or as the type attribute of the child tag) parses to      *)
(* a SimpleType / SimpleContent whose datatype is m.                       *)
(***************************************************************************)
C3_DatatypeRoundTrip ==
    \A m \in SimpleDatatype :
        /\ ( /\ entry = "parse"
             /\ input \in {SimpleTypeDecl(Display(m)),
                           SimpleTypeDeclByType(Display(m))}
             /\ Done ) =>
                /\ status = "ok"
                /\ Len(schema.nodes) = 1
                /\ schema.nodes[1].kind = "SimpleType"
                /\ schema.nodes[1].datatype = m
        /\ ( /\ entry = "parse_simple_content"
             /\ input \in {SimpleContentDecl(Display(m)),
                           SimpleContentDeclByType(Display(m))}
             /\ Done ) =>
                /\ status = "ok"
                /\ result[1].datatype = m

(***************************************************************************)
(* C4: a simpleType or simpleContent declaration whose datatype name is    *)
(* none of the six scalar names (xs:date) fails with the                   *)
(* Unsupported-datatype error; it never succeeds with a default datatype.  *)
(***************************************************************************)
C4_UnsupportedDatatypeFails ==
    ( /\ \/ entry = "parse"
            /\ input \in {SimpleTypeDecl(NameDate),
                          SimpleTypeDeclByType(NameDate)}
         \/ entry = "parse_simple_content"
            /\ input \in {SimpleContentDecl(NameDate),
                          SimpleContentDeclByType(NameDate)}
      /\ Done ) =>
        status = "err" /\ error = UnsupportedDatatype

(***************************************************************************)
(* C5: parsing <xs:complexType name="C"><xs:sequence>...</xs:sequence>     *)
(* </xs:complexType> succeeds and yields one ComplexType node named C      *)
(* whose content-model tag is Sequence, and no other node.                 *)
(***************************************************************************)
C5_ComplexSequence ==
    \A inner \in Particles :
        (entry = "parse" /\ input = ComplexSequenceDecl(inner) /\ Done) =>
            /\ status = "ok"
            /\ Len(schema.nodes) = 1
            /\ schema.nodes[1].kind = "ComplexType"
            /\ schema.nodes[1].name = <<"C">>
            /\ schema.nodes[1].content = "Sequence"

(***************************************************************************)
(* C6: for a top-level <xs:complexType name="C" mixed="true"> followed by  *)
(* any text, the ComplexType parser returns successfully with the          *)
(* content-model tag MixedContent; no Unexpected-Tag or                    *)
(* Unexpected-Character error is raised.                                   *)
(***************************************************************************)
C6_MixedAttribute ==
    ( /\ entry = "parse"
      /\ StartsWith(input, ComplexMixed)
      /\ last.op = "parse_complex_type"
      /\ last.from = Len(TagComplexType) + 2 ) =>
        /\ status \in {"running", "ok"}
        /\ schema.nodes[1].kind = "ComplexType"
        /\ schema.nodes[1].content = "MixedContent"

(***************************************************************************)
(* C7: a document with a root-level tag that is none of xs:schema,         *)
(* xs:element, xs:attribute, xs:simpleType, xs:complexType (<xs:import/>)  *)
(* makes parse() return the Unexpected-tag error naming that tag, wherever *)
(* the tag stands: at the start, after an element or attribute             *)
(* declaration, after an attribute-less <xs:schema>, after text.           *)
(***************************************************************************)
C7_UnknownRootTagFails ==
    \A before \in BeforeImport :
        (entry = "parse" /\ input = before \o Import /\ Done) =>
            status = "err" /\ error = UnexpectedTag(ImportTagName)

(***************************************************************************)
(* C8: on every input text, also one that ends in the middle of a tag,     *)
(* every parser operation returns a value or an error; none aborts by      *)
(* slicing the input buffer past its end.                                  *)
(***************************************************************************)
C8_NoAbort == status # "panic"

(***************************************************************************)
(* C9: on a successful parse the node sequence holds one node per          *)
(* top-level declaration, in document order; a declaration that occurs     *)
(* twice, whatever separates the occurrences (nothing, a space, a          *)
(* newline), gives two nodes.                                              *)
(***************************************************************************)
C9_OneNodePerDeclaration ==
    \A d \in Declarations :
        /\ (entry = "parse" /\ input = d /\ status = "ok") =>
              Len(schema.nodes) = 1
        /\ \A sep \in Separators :
              (entry = "parse" /\ input = d \o sep \o d /\ status = "ok") =>
                  /\ Len(schema.nodes) = 2
                  /\ schema.nodes[1] = schema.nodes[2]

(***************************************************************************)
(* C10: the element parser and the attribute parser consume exactly their  *)
(* own opening tag: when either returns, the characters consumed end with  *)
(* the first `>` that follows the point where it was called, and no        *)
(* character after that `>` has been consumed.                             *)
(***************************************************************************)
C10_ConsumesOwnTag ==
    (last.op \in {"parse_element", "parse_attribute"} /\ HasGtFrom(last.from))
        => Consumed(last.to) = AfterFirstGt(last.from)

C12_DefaultsWhateverTheText ==
    (entry = "parse" /\ status = "ok") =>
        \A i \in 1..Len(schema.nodes) :
            LET node == schema.nodes[i] IN
            /\ node.kind = "Element" =>
                  /\ node.min_occurs = 1
                  /\ node.max_occurs = 1
                  /\ node.datatype = EmptySimpleTypeRef
            /\ node.kind = "Attribute" =>
                  /\ node.datatype = EmptySimpleTypeRef
                  /\ node.default_value = None
                  /\ node.fixed_value = None
                  /\ node.use_option = "Optional"

\* an element with type and minOccurs and an attribute with type, use,
\* default and fixed were parsed
C12_ParsedFullDeclarations ==
    /\ entry = "parse"
    /\ input = ElementFull \o AttributeFull
    /\ status = "ok"
    /\ Len(schema.nodes) = 2
    /\ schema.nodes[1].kind = "Element"
    /\ schema.nodes[2].kind = "Attribute"

(***************************************************************************)
(* C13 as claimed: when the ComplexType parser returns successfully, its   *)
(* content-model tag is the marker of the last child tag among             *)
(* xs:simpleContent, xs:complexContent, xs:sequence, xs:choice, xs:all,    *)
(* xs:mixedContent, and Empty when there is none; a later such child tag   *)
(* overwrites the marker of an earlier one.                                *)
(***************************************************************************)
C13_LastListedChild ==
    ComplexReturned =>
        \A ts \in ChildSeqs(MaxChildren) :
            input = ComplexDecl(ts) =>
                schema.nodes[1].content = LastMarker(Listed(ts))

(***************************************************************************)
(* C13 as amended: the parser returns at the first xs:mixedContent child   *)
(* and at the first nested xs:complexType with mixed="true", both with the *)
(* tag MixedContent; the content-model tag is the marker of the last child *)
(* tag up to that point (Empty when there is none), so a later child tag   *)
(* overwrites an earlier marker only when neither of the two came before.  *)
(***************************************************************************)
C13_LastChildUpToMixed ==
    ComplexReturned =>
        \A ts \in ChildSeqs(MaxChildren) :
            input = ComplexDecl(ts) =>
                schema.nodes[1].content = LastMarker(UpToEnd(ts))

\* a complexType with xs:sequence then xs:choice was parsed: the later child
\* overwrote the marker
C13_ChoiceOverwroteSequence ==
    /\ ComplexReturned
    /\ input = ComplexDecl(<<ChildTag(TagSequence), ChildTag(TagChoice)>>)
    /\ status = "ok"
    /\ schema.nodes[1].content = "Choice"

(***************************************************************************)
(* C14: the cursor position is the number of characters of the input that  *)
(* next_char has returned so far; in particular it never exceeds the       *)
(* length of the input, also after the end of the input was signalled.     *)
(***************************************************************************)
C14_CursorWithinInput == entry = "parse" => position <= Len(input)

(***************************************************************************)
(* C15: for the tag <xs:extension base="xs:T">, the                        *)
(* ComplexContentExtension parser returns a value whose base_type is       *)
(* exactly T (no prefix, colon, `base=` key or quotes) and whose attribute *)
(* mapping is empty.                                                       *)
(***************************************************************************)
C15_BaseTypeIsBareName ==
    \A n \in TypeNames :
        ( /\ entry = "parse_complex_content_extension"
          /\ input = ExtensionDecl(n)
          /\ Done ) =>
            /\ status = "ok"
            /\ result[1].base_type = n
            /\ result[1].attributes = {}

(***************************************************************************)
(* C16: parse(), and every parser called on its own, terminates on every   *)
(* finite input text: the entry point eventually returns, and the number   *)
(* of next_char calls made by then (the cursor position, which every call  *)
(* advances by one) is at most the input length plus a constant.           *)
(***************************************************************************)
C16_ParseTerminates == <>(Done /\ position <= Len(input) + 5)

\* parse() has returned from a document of several declarations
C16_ParseReturned ==
    /\ entry = "parse"
    /\ Done
    /\ Len(schema.nodes) >= 2
    /\ position > Len(input)

(***************************************************************************)
(* C17: every ComplexType node of a successfully parsed schema has         *)
(* base_type absent, an empty attribute mapping and mixed_content absent,  *)
(* and a content-model tag among Empty, SimpleContent,                     *)
(* ComplexContentExtension, MixedContent, Sequence, Choice, All (never     *)
(* Element, Group, Union); and no run of parse() enters parse_sequence,    *)
(* parse_choice, parse_all, parse_simple_content or                        *)
(* parse_complex_content_extension.                                        *)
(***************************************************************************)
C17_FlatComplexType ==
    /\ (entry = "parse" /\ status = "ok") =>
          \A i \in 1..Len(schema.nodes) :
              schema.nodes[i].kind = "ComplexType" =>
                  /\ schema.nodes[i].base_type = None
                  /\ schema.nodes[i].attributes = {}
                  /\ schema.nodes[i].mixed_content = None
                  /\ schema.nodes[i].content \in
                        {"Empty", "SimpleContent", "ComplexContentExtension",
                         "MixedContent", "Sequence", "Choice", "All"}
    /\ entry = "parse" =>
          last.op \notin {"parse_sequence", "parse_choice", "parse_all",
                          "parse_simple_content",
                          "parse_complex_content_extension"}

\* a schema with a ComplexType node of content Sequence was parsed
C17_ParsedSequenceType ==
    /\ entry = "parse"
    /\ status = "ok"
    /\ \E i \in 1..Len(schema.nodes) :
          /\ schema.nodes[i].kind = "ComplexType"
          /\ schema.nodes[i].content = "Sequence"

(***************************************************************************)
(* C18: the attribute-value scanner returns an absent value when the       *)
(* quoted string it reads is empty, so targetNamespace="" gives the same   *)
(* schema as no attribute at all; and when the closing quote is missing it *)
(* returns, without failing, all the text up to the end of the input.      *)
(***************************************************************************)
C18_EmptyAndUnclosedValues ==
    /\ ScannerReturned =>
          LET quotes == Places(last.from, {"\""}) IN
          /\ ( /\ last.to \in quotes
               /\ last.to - 1 \in quotes ) => result = Some(None)
          /\ ( /\ Cardinality(quotes) = 1
               /\ Places(last.from, {" ", ">"}) \cap 1..Min(quotes) = {}
               /\ Min(quotes) < Len(input) ) =>
                  /\ status = "ok"
                  /\ result =
                        Some(Some(SubSeq(input, Min(quotes) + 1, Len(input))))
    /\ (entry = "parse" /\ input = SchemaEmptyValue /\ Done) =>
          status = "ok" /\ schema = EmptySchema
    /\ (entry = "parse" /\ input = SchemaUnterminated /\ Done) =>
          /\ status = "ok"
          /\ schema.target_namespace =
                Some(SubSeq(input, Min(Places(0, {"\""})) + 1, Len(input)))

\* the scanner read the empty value of targetNamespace=""
C18_ReadEmptyValue ==
    /\ ScannerReturned
    /\ input = SchemaEmptyValue
    /\ last.to = Len(input) - 1
    /\ last.from < last.to - 1
    /\ result = Some(None)

====
